---- MODULE Spec2Model ----
(***************************************************************************)
(* Run execution and event distribution of the GhostForm v2 API            *)
(* (src/main.py): the run trigger run_now, the background task process     *)
(* driving FiveSurveysAdapter.run, the helpers _emit_and_store and         *)
(* _update_run, and the per-tenant ConnectionManager with the websocket    *)
(* endpoint that feeds it.                                                 *)
(*                                                                         *)
(* The program is an asyncio application: code between two awaits that     *)
(* really suspend runs without interleaving.  The suspension points are    *)
(* websocket.accept, every ws.send_json, websocket.receive_text and        *)
(* asyncio.sleep.  `await _update_run(...)` contains no suspension.  Each  *)
(* action below is one such uninterrupted stretch of a handler or task.    *)
(* A send suspends before its message is written: the Send action writes   *)
(* the message (or fails) and runs the code that follows up to the next    *)
(* suspension.                                                             *)
(*                                                                         *)
(* database.py is not among the sources: create_document is modelled as    *)
(* an append to the collection, and the runevent collection is kept per    *)
(* run id, which is the view get_run_events reads.  Storage calls of the   *)
(* background task may fail (the code guards both: the try block of        *)
(* FiveSurveysAdapter.run and the try in _update_run); SpecFault injects   *)
(* up to MaxFaults such failures, Spec none.                               *)
(***************************************************************************)
EXTENDS Integers, Sequences, FiniteSets, TLC

(* ------------------------------ bounds --------------------------------- *)

\* run_now requests accepted in a behaviour of Spec
MaxRuns == 2
\* websocket connections opened in a behaviour of Spec
MaxConns == 2
\* run_now requests, connections and injected storage faults of SpecFault
FaultRuns == 1
FaultConns == 2
MaxFaults == 2

(* ----------------------------- constants ------------------------------- *)

Tenants == {"T1", "T2"}

\* the adapter registry
adapters == {"FIVE_SURVEYS"}

\* the account collection, read-only to the run engine
Accounts ==
    [a \in {"A1", "A2"} |->
        IF a = "A1" THEN [tenant_id |-> "T1", site |-> "FIVE_SURVEYS", username |-> "u1"]
                    ELSE [tenant_id |-> "T2", site |-> "OTHER_SITE", username |-> "u2"]]

\* the requests a behaviour draws from: an account of the requesting tenant on
\* each site, an account of another tenant, a well-formed id that resolves to
\* nothing, and a string that is not an ObjectId
RunNowRequests ==
    { [tenant_id |-> "T1", account_id |-> "A1"],
      [tenant_id |-> "T2", account_id |-> "A2"],
      [tenant_id |-> "T2", account_id |-> "A1"],
      [tenant_id |-> "T1", account_id |-> "A9"],
      [tenant_id |-> "T2", account_id |-> "not-an-id"] }

\* _to_object_id: ObjectId(s) raises for a malformed id
ValidObjectId(s) == s # "not-an-id"

\* payout = 0.75 in hundredths, duration = 80 seconds
Payout == 75
Duration == 80
SecondsPerHour == 3600

NoError == "None"
StorageError == "storage write failed"

Range(s) == {s[i] : i \in 1..Len(s)}

\* list.remove(x): drops the first occurrence
RemoveFirst(s, x) ==
    LET i == CHOOSE j \in 1..Len(s) : s[j] = x /\ \A k \in 1..(j-1) : s[k] # x
    IN  [k \in 1..(Len(s)-1) |-> IF k < i THEN s[k] ELSE s[k+1]]

\* round(payout / max(duration/3600, 1e-6), 2), in hundredths, for payout in
\* hundredths: the quotient payout*3600/duration rounded to the nearest unit
RevenueHour(payout, duration) ==
    IF duration * 1000000 < SecondsPerHour
    THEN payout * 1000000
    ELSE (2 * payout * SecondsPerHour + duration) \div (2 * duration)

(* ------------------------------- state --------------------------------- *)

VARIABLES
    active,     \* manager.active: tenant_id -> list of websockets
    run,        \* db["run"]: run id -> run document
    runevent,   \* db["runevent"], per run id, in insertion order
    task,       \* per run: position of run_now / process / adapter.run
    sockets,    \* per websocket: tenant, endpoint position, whether the peer is there
    faults,     \* storage faults injected so far
    limits      \* the bounds of the behaviour

vars == <<active, run, runevent, task, sockets, faults, limits>>

\* the state as one value, so that a stretch of code is a function on it
World ==
    [active |-> active, run |-> run, runevent |-> runevent, task |-> task,
     sockets |-> sockets, faults |-> faults, limits |-> limits]

Install(w) ==
    /\ active' = w.active
    /\ run' = w.run
    /\ runevent' = w.runevent
    /\ task' = w.task
    /\ sockets' = w.sockets
    /\ faults' = w.faults
    /\ limits' = w.limits

(* ------------------------- ConnectionManager --------------------------- *)

\* self.active.get(tenant_id, [])
ActiveGet(w, tenant_id) ==
    IF tenant_id \in DOMAIN w.active THEN w.active[tenant_id] ELSE <<>>

\* ConnectionManager.connect, after websocket.accept() has returned:
\* self.active.setdefault(tenant_id, []).append(websocket)
connect(w, tenant_id, ws) ==
    [w EXCEPT !.active =
        [t \in DOMAIN w.active \cup {tenant_id} |->
            IF t = tenant_id THEN Append(ActiveGet(w, tenant_id), ws) ELSE w.active[t]]]

\* disconnect that pops the tenant's entry whether or not the list is empty
disconnectPopsTenant(w, tenant_id, ws) ==
    IF tenant_id \notin DOMAIN w.active THEN w
    ELSE [w EXCEPT !.active = [t \in DOMAIN w.active \ {tenant_id} |-> w.active[t]]]

\* disconnect without the pop of an emptied list
disconnectKeepsEmpty(w, tenant_id, ws) ==
    LET conns == ActiveGet(w, tenant_id)
        left  == IF ws \in Range(conns) THEN RemoveFirst(conns, ws) ELSE conns
    IN  IF tenant_id \notin DOMAIN w.active THEN w
        ELSE [w EXCEPT !.active[tenant_id] = left]

\* disconnect that drops the head of the list instead of the websocket
disconnectDropsHead(w, tenant_id, ws) ==
    LET conns == ActiveGet(w, tenant_id)
        left  == IF conns # <<>> THEN Tail(conns) ELSE conns
    IN  IF tenant_id \notin DOMAIN w.active THEN w
        ELSE IF left = <<>>
        THEN [w EXCEPT !.active = [t \in DOMAIN w.active \ {tenant_id} |-> w.active[t]]]
        ELSE [w EXCEPT !.active[tenant_id] = left]

\* ConnectionManager.disconnect
disconnect(w, tenant_id, ws) ==
    LET conns == ActiveGet(w, tenant_id)
        left  == IF ws \in Range(conns) THEN RemoveFirst(conns, ws) ELSE conns
    IN  IF tenant_id \notin DOMAIN w.active THEN w
        ELSE IF left = <<>>
        THEN [w EXCEPT !.active = [t \in DOMAIN w.active \ {tenant_id} |-> w.active[t]]]
        ELSE [w EXCEPT !.active[tenant_id] = left]

\* the message _emit_and_store and run_now hand to broadcast
RunEventMsg(run_id, level, code) ==
    [type |-> "run_event", run_id |-> run_id, level |-> level, code |-> code]

RECURSIVE Flatten(_, _)
Flatten(f, keys) ==
    IF keys = {} THEN <<>>
    ELSE LET k == CHOOSE x \in keys : TRUE IN f[k] \o Flatten(f, keys \ {k})

\* broadcast that iterates the connections of every tenant
BroadcastBeginAllTenants(w, r, tenant_id, msg) ==
    [w EXCEPT !.task[r].pending = Flatten(w.active, DOMAIN w.active),
              !.task[r].snapshot = Range(Flatten(w.active, DOMAIN w.active)),
              !.task[r].delivered = {},
              !.task[r].msg = msg]

\* ConnectionManager.broadcast up to its first send: the list is copied once
BroadcastBegin(w, r, tenant_id, msg) ==
    [w EXCEPT !.task[r].pending = ActiveGet(w, tenant_id),
              !.task[r].snapshot = Range(ActiveGet(w, tenant_id)),
              !.task[r].delivered = {},
              !.task[r].msg = msg]

\* a loop body that leaves the loop after the first send that succeeds
BroadcastSendFirstOnly(w, r) ==
    LET ws == Head(w.task[r].pending)
        t  == w.run[r].tenant_id
    IN  IF w.sockets[ws].alive
        THEN [raised |-> FALSE,
              w |-> [w EXCEPT !.task[r].delivered = @ \cup {ws}, !.task[r].pending = <<>>]]
        ELSE [raised |-> FALSE,
              w |-> [disconnect(w, t, ws) EXCEPT !.task[r].pending = Tail(@)]]

\* a loop body without the try: the exception of a failed send leaves broadcast
BroadcastSendRaises(w, r) ==
    LET ws == Head(w.task[r].pending)
    IN  IF w.sockets[ws].alive
        THEN [raised |-> FALSE,
              w |-> [w EXCEPT !.task[r].delivered = @ \cup {ws}, !.task[r].pending = Tail(@)]]
        ELSE [raised |-> TRUE, w |-> w]

\* one pass of broadcast's loop body: ws.send_json(message) reaches a live peer,
\* or raises; the except clause drops the connection from the hub and the loop
\* goes on, so nothing is raised to the caller
BroadcastSend(w, r) ==
    LET ws  == Head(w.task[r].pending)
        t   == w.run[r].tenant_id
        sent == IF w.sockets[ws].alive
                THEN [w EXCEPT !.task[r].delivered = @ \cup {ws}]
                ELSE disconnect(w, t, ws)
    IN  [raised |-> FALSE, w |-> [sent EXCEPT !.task[r].pending = Tail(@)]]

(* ------------------------------ storage -------------------------------- *)

CanFault(w) == w.faults < w.limits.faults

Fault(w) == [w EXCEPT !.faults = @ + 1]

\* database.create_document: the document goes to the end of its collection
create_document(collection, doc) == Append(collection, doc)

\* RunEvent(...) and create_document("runevent", event)
AppendEvent(w, r, level, code) ==
    [w EXCEPT !.runevent[r] =
        create_document(@, [tenant_id |-> w.run[r].tenant_id, run_id |-> r,
                            level |-> level, code |-> code])]

\* $set of the given fields on a run document
SetFields(doc, fields) ==
    [k \in DOMAIN doc |-> IF k \in DOMAIN fields THEN fields[k] ELSE doc[k]]

\* _update_run: update_one may raise, and the exception is dropped
update_run(w, r, fields) ==
    {[w EXCEPT !.run[r] = SetFields(@, fields),
               !.task[r].hist = IF "status" \in DOMAIN fields /\ fields.status # w.run[r].status
                                THEN Append(@, fields.status) ELSE @]}
    \cup (IF CanFault(w) THEN {[Fault(w) EXCEPT !.task[r].failed = TRUE]} ELSE {})

\* _emit_and_store up to the first send of its broadcast: the event is stored,
\* then broadcast begins; create_document may raise
emit_and_store(w, r, level, code) ==
    {[raised |-> FALSE,
      w |-> BroadcastBegin(AppendEvent(w, r, level, code), r, w.run[r].tenant_id,
                           RunEventMsg(r, level, code))]}
    \cup (IF CanFault(w)
          THEN {[raised |-> TRUE, w |-> [Fault(w) EXCEPT !.task[r].failed = TRUE]]}
          ELSE {})

\* an exception caught by the try block of FiveSurveysAdapter.run
Caught(w, r) == [w EXCEPT !.task[r].raised = TRUE]

(* ------------------------- FiveSurveysAdapter -------------------------- *)

\* an adapter whose update after LOGIN_OK writes the status of the next step
StepsLoginOkSkips ==
    << [code |-> "RUN_STARTED", fields |-> [status |-> "LOGIN"], sleeps |-> TRUE],
       [code |-> "LOGIN_OK", fields |-> [status |-> "IN_SURVEY"], sleeps |-> TRUE],
       [code |-> "SURVEYS_FOUND", fields |-> [status |-> "IN_SURVEY"], sleeps |-> TRUE],
       [code |-> "SURVEY_COMPLETED",
        fields |-> [status |-> "COMPLETED", payout_total |-> Payout,
                    duration_sec_total |-> Duration,
                    revenue_hour |-> RevenueHour(Payout, Duration)],
        sleeps |-> FALSE],
       [code |-> "RUN_FINISHED", fields |-> [status |-> "FINISHED"], sleeps |-> FALSE] >>

\* an adapter that reports the surveys found before the login
StepsFoundBeforeLogin ==
    << [code |-> "RUN_STARTED", fields |-> [status |-> "LOGIN"], sleeps |-> TRUE],
       [code |-> "SURVEYS_FOUND", fields |-> [status |-> "CHECK_SURVEYS"], sleeps |-> TRUE],
       [code |-> "LOGIN_OK", fields |-> [status |-> "IN_SURVEY"], sleeps |-> TRUE],
       [code |-> "SURVEY_COMPLETED",
        fields |-> [status |-> "COMPLETED", payout_total |-> Payout,
                    duration_sec_total |-> Duration,
                    revenue_hour |-> RevenueHour(Payout, Duration)],
        sleeps |-> FALSE],
       [code |-> "RUN_FINISHED", fields |-> [status |-> "FINISHED"], sleeps |-> FALSE] >>

\* an adapter whose update after SURVEYS_FOUND writes the status LOGIN again
StepsBackToLogin ==
    << [code |-> "RUN_STARTED", fields |-> [status |-> "LOGIN"], sleeps |-> TRUE],
       [code |-> "LOGIN_OK", fields |-> [status |-> "CHECK_SURVEYS"], sleeps |-> TRUE],
       [code |-> "SURVEYS_FOUND", fields |-> [status |-> "LOGIN"], sleeps |-> TRUE],
       [code |-> "SURVEY_COMPLETED",
        fields |-> [status |-> "COMPLETED", payout_total |-> Payout,
                    duration_sec_total |-> Duration,
                    revenue_hour |-> RevenueHour(Payout, Duration)],
        sleeps |-> FALSE],
       [code |-> "RUN_FINISHED", fields |-> [status |-> "FINISHED"], sleeps |-> FALSE] >>

\* the emissions of FiveSurveysAdapter.run, each with the fields of the
\* _update_run that follows it and whether asyncio.sleep follows that
Steps ==
    << [code |-> "RUN_STARTED", fields |-> [status |-> "LOGIN"], sleeps |-> TRUE],
       [code |-> "LOGIN_OK", fields |-> [status |-> "CHECK_SURVEYS"], sleeps |-> TRUE],
       [code |-> "SURVEYS_FOUND", fields |-> [status |-> "IN_SURVEY"], sleeps |-> TRUE],
       [code |-> "SURVEY_COMPLETED",
        fields |-> [status |-> "COMPLETED", payout_total |-> Payout,
                    duration_sec_total |-> Duration,
                    revenue_hour |-> RevenueHour(Payout, Duration)],
        sleeps |-> FALSE],
       [code |-> "RUN_FINISHED", fields |-> [status |-> "FINISHED"], sleeps |-> FALSE] >>

At(w, r, pc, step) == [w EXCEPT !.task[r].pc = pc, !.task[r].step = step]

\* the except branch after its emit: _update_run(run_id, {"status": "ERROR", ...})
AdapterExceptAfter(w, r) ==
    {At(w2, r, "done", w.task[r].step) :
        w2 \in update_run(w, r, [status |-> "ERROR", error |-> StorageError])}

\* the except branch: emit("error", "RUN_ERROR", ...); an exception raised here
\* leaves adapter.run and process, and ends the task
AdapterExcept(w, r) ==
    UNION {IF o.raised THEN {At(o.w, r, "crashed", w.task[r].step)}
           ELSE IF o.w.task[r].pending = <<>> THEN AdapterExceptAfter(o.w, r)
           ELSE {o.w} :
           o \in emit_and_store(At(w, r, "except", w.task[r].step), r, "error", "RUN_ERROR")}

RECURSIVE AdapterEmit(_, _, _)
\* the code after the k-th emit has returned: _update_run, then the sleep, the
\* next emit or the end of run
AdapterAfter(w, r, k) ==
    UNION {IF k = Len(Steps) THEN {At(w2, r, "done", k)}
           ELSE IF Steps[k].sleeps THEN {At(w2, r, "sleep", k)}
           ELSE AdapterEmit(w2, r, k + 1) :
           w2 \in update_run(w, r, Steps[k].fields)}

\* the k-th emit of the try block, up to the first suspension after it
AdapterEmit(w, r, k) ==
    UNION {IF o.raised THEN AdapterExcept(Caught(o.w, r), r)
           ELSE IF o.w.task[r].pending = <<>> THEN AdapterAfter(o.w, r, k)
           ELSE {o.w} :
           o \in emit_and_store(At(w, r, "emit", k), r, "info", Steps[k].code)}

(* ------------------------------- run_now ------------------------------- *)

\* adapters.get("FIVE_SURVEYS")
adapter == IF "FIVE_SURVEYS" \in adapters THEN "FiveSurveysAdapter" ELSE "None"

\* run_now that awaits process() instead of creating a task: the adapter runs
\* while the request is still unanswered
RunNowAfterAwaitsRun(w, r) ==
    LET a == w.run[r].account_id
    IN  IF ~ValidObjectId(a) THEN [w EXCEPT !.task[r].pc = "refused", !.task[r].response = 400]
        ELSE IF a \notin DOMAIN Accounts
        THEN [w EXCEPT !.task[r].pc = "refused", !.task[r].response = 404]
        ELSE [w EXCEPT !.task[r].pc = "scheduled"]

\* run_now after its broadcast: the account is loaded, and the request is
\* refused or the background task created and the response returned
RunNowAfter(w, r) ==
    LET a == w.run[r].account_id
    IN  IF ~ValidObjectId(a) THEN [w EXCEPT !.task[r].pc = "refused", !.task[r].response = 400]
        ELSE IF a \notin DOMAIN Accounts
        THEN [w EXCEPT !.task[r].pc = "refused", !.task[r].response = 404]
        ELSE [w EXCEPT !.task[r].pc = "scheduled", !.task[r].response = 200]

\* run_now up to the first send of its broadcast
run_now(w, tenant_id, account_id) ==
    LET r  == Len(w.run) + 1
        w1 == [w EXCEPT
                 !.run = create_document(@,
                            [tenant_id |-> tenant_id, account_id |-> account_id,
                             site |-> "FIVE_SURVEYS", status |-> "INIT",
                             payout_total |-> 0, duration_sec_total |-> 0,
                             revenue_hour |-> 0, error |-> NoError]),
                 !.runevent = Append(@, <<>>),
                 !.task = Append(@, [pc |-> "enqueue", step |-> 0, pending |-> <<>>,
                                     snapshot |-> {}, delivered |-> {},
                                     msg |-> RunEventMsg(r, "info", "RUN_ENQUEUED"),
                                     request |-> [tenant_id |-> tenant_id,
                                                  account_id |-> account_id],
                                     response |-> 0, hist |-> <<"INIT">>,
                                     failed |-> FALSE, raised |-> FALSE,
                                     publish_raised |-> FALSE])]
        w2 == BroadcastBegin(AppendEvent(w1, r, "info", "RUN_ENQUEUED"), r, tenant_id,
                             RunEventMsg(r, "info", "RUN_ENQUEUED"))
    IN  IF w2.task[r].pending = <<>> THEN RunNowAfter(w2, r) ELSE w2

\* process: adapter.run(...) up to its first suspension
process(w, r) ==
    IF adapter = "None" THEN {At(w, r, "crashed", 0)} ELSE AdapterEmit(w, r, 1)

\* the code that follows a broadcast once its last send has returned
AfterBroadcast(w, r) ==
    IF w.task[r].pc = "enqueue" THEN {RunNowAfter(w, r)}
    ELSE IF w.task[r].pc = "emit" THEN AdapterAfter(w, r, w.task[r].step)
    ELSE AdapterExceptAfter(w, r)

\* where an exception leaving broadcast would go: out of run_now as a failed
\* request, into the except branch of the adapter's try block, or, from inside
\* that branch, out of the task
BroadcastRaised(w, r) ==
    LET w1 == [w EXCEPT !.task[r].publish_raised = TRUE, !.task[r].pending = <<>>]
    IN  IF w.task[r].pc = "enqueue"
        THEN {[w1 EXCEPT !.task[r].pc = "refused", !.task[r].response = 500]}
        ELSE IF w.task[r].pc = "emit" THEN AdapterExcept(Caught(w1, r), r)
        ELSE {At(w1, r, "crashed", w.task[r].step)}

(* ------------------------------- actions ------------------------------- *)

InitWith(nRuns, nConns, nFaults) ==
    /\ active = [t \in {} |-> <<>>]
    /\ run = <<>>
    /\ runevent = <<>>
    /\ task = <<>>
    /\ sockets = <<>>
    /\ faults = 0
    /\ limits = [runs |-> nRuns, conns |-> nConns, faults |-> nFaults]

Init == InitWith(MaxRuns, MaxConns, 0)

InitFault == InitWith(FaultRuns, FaultConns, MaxFaults)

\* POST /api/run-now
RunNow ==
    /\ Len(run) < limits.runs
    /\ \E req \in RunNowRequests : Install(run_now(World, req.tenant_id, req.account_id))

\* a send of a broadcast in progress returns or raises, and the code runs on
\* to the next suspension
Send ==
    \E r \in 1..Len(run) :
        /\ task[r].pending # <<>>
        /\ LET o == BroadcastSend(World, r)
           IN  IF o.raised THEN \E w2 \in BroadcastRaised(o.w, r) : Install(w2)
               ELSE IF o.w.task[r].pending # <<>> THEN Install(o.w)
               ELSE \E w2 \in AfterBroadcast(o.w, r) : Install(w2)

\* the event loop starts the task created by asyncio.create_task(process())
Start ==
    \E r \in 1..Len(run) :
        /\ task[r].pc = "scheduled"
        /\ \E w \in process(World, r) : Install(w)

\* asyncio.sleep returns
Wake ==
    \E r \in 1..Len(run) :
        /\ task[r].pc = "sleep"
        /\ \E w \in AdapterEmit(World, r, task[r].step + 1) : Install(w)

\* websocket_endpoint up to the send of the acknowledgment: manager.connect
WsConnect ==
    /\ Len(sockets) < limits.conns
    /\ \E t \in Tenants :
        LET ws == Len(sockets) + 1
            w  == [World EXCEPT !.sockets =
                      Append(@, [tenant_id |-> t, pc |-> "accepted", alive |-> TRUE])]
        IN  Install(connect(w, t, ws))

\* websocket.send_json({"type": "connected", ...}) returns, or raises and the
\* handler disconnects
WsAck ==
    \E ws \in 1..Len(sockets) :
        /\ sockets[ws].pc = "accepted"
        /\ LET t == sockets[ws].tenant_id
           IN  IF sockets[ws].alive
               THEN Install([World EXCEPT !.sockets[ws].pc = "receiving"])
               ELSE Install([disconnect(World, t, ws) EXCEPT !.sockets[ws].pc = "closed"])

\* the peer goes away
PeerClose ==
    \E ws \in 1..Len(sockets) :
        /\ sockets[ws].alive
        /\ sockets[ws].pc # "closed"
        /\ Install([World EXCEPT !.sockets[ws].alive = FALSE])

\* websocket.receive_text() raises WebSocketDisconnect: manager.disconnect
WsReceive ==
    \E ws \in 1..Len(sockets) :
        /\ sockets[ws].pc = "receiving"
        /\ ~sockets[ws].alive
        /\ Install([disconnect(World, sockets[ws].tenant_id, ws) EXCEPT !.sockets[ws].pc = "closed"])

Next == RunNow \/ Send \/ Start \/ Wake \/ WsConnect \/ WsAck \/ PeerClose \/ WsReceive

Spec == Init /\ [][Next]_vars

SpecFault == InitFault /\ [][Next]_vars

(* ------------------------------- claims -------------------------------- *)

Requests == DOMAIN task
RunIds == DOMAIN run
Resolves(account_id) == ValidObjectId(account_id) /\ account_id \in DOMAIN Accounts
Answered(q) == task[q].response # 0
ErrorEvents(r) == {i \in DOMAIN runevent[r] : runevent[r][i].level = "error"}
Codes(r) == [i \in DOMAIN runevent[r] |-> runevent[r][i].code]
IsPrefix(s, t) == Len(s) <= Len(t) /\ \A i \in 1..Len(s) : s[i] = t[i]

\* C1: a run_now request whose account_id does not resolve to an account is
\* answered 404, and no run document, no event and no broadcast comes of it.
C1_NotFoundCreatesNothing ==
    \A q \in Requests :
        (/\ Answered(q)
         /\ ValidObjectId(task[q].request.account_id)
         /\ task[q].request.account_id \notin DOMAIN Accounts) =>
            /\ task[q].response = 404
            /\ \A r \in RunIds : run[r].account_id # task[q].request.account_id
            /\ \A r \in RunIds : run[r].account_id = task[q].request.account_id
                                    => runevent[r] = <<>>

\* C2: whenever an observer has been sent the event of an adapter transition, the
\* run document already carries the status of that transition (or a later one).
C2_StatusBeforeBroadcast ==
    \A r \in RunIds : \A k \in DOMAIN Steps :
        (task[r].msg.code = Steps[k].code /\ task[r].delivered # {}) =>
            \E j \in k..Len(Steps) : run[r].status = Steps[j].fields.status

\* C3: a run started for an account whose site has no registered adapter ends
\* with status ERROR and an error-level event in its log.
C3_NoAdapterEndsInError ==
    \A r \in RunIds :
        (/\ Resolves(run[r].account_id)
         /\ Accounts[run[r].account_id].site \notin adapters
         /\ task[r].pc \in {"done", "crashed"}) =>
            /\ task[r].response = 200
            /\ run[r].status = "ERROR"
            /\ ErrorEvents(r) # {}

\* C4: when a step of adapter execution has raised, the task ends with a
\* RUN_ERROR event of level error in the log, the run's status ERROR and its
\* error field set, and the exception does not leave the task.
C4_FailureBecomesErrorRun ==
    \A r \in RunIds :
        (task[r].raised /\ task[r].pc \in {"done", "crashed"}) =>
            /\ task[r].pc = "done"
            /\ \E i \in ErrorEvents(r) : runevent[r][i].code = "RUN_ERROR"
            /\ run[r].status = "ERROR"
            /\ run[r].error # NoError

\* C5: every connection a run_event was delivered to is subscribed under the
\* tenant of the run the event belongs to.
C5_TenantIsolation ==
    \A r \in RunIds : \A ws \in task[r].delivered :
        sockets[ws].tenant_id = run[r].tenant_id

InProgress(r) == task[r].pc \in {"emit", "sleep"}

\* two runs of different tenants are under way, an observer of the first has
\* been sent its event and an observer of the other tenant is subscribed
C5_Witness ==
    \E r1, r2 \in RunIds : \E ws1, ws2 \in DOMAIN sockets :
        /\ run[r1].tenant_id = "T1" /\ run[r2].tenant_id = "T2"
        /\ InProgress(r1) /\ InProgress(r2)
        /\ ws1 \in task[r1].delivered
        /\ sockets[ws2].tenant_id = "T2" /\ sockets[ws2].alive
        /\ "T2" \in DOMAIN active /\ ws2 \in Range(active["T2"])

HubOf(a) == [active |-> a]
Subscribed(a, tenant_id) == Range(ActiveGet(HubOf(a), tenant_id))
\* the step begins a broadcast for request r
BroadcastBegan(r) == r \notin DOMAIN task \/ task'[r].msg # task[r].msg
\* the step is a send of r's broadcast
SendOf(r) == r \in DOMAIN task /\ task[r].pending # <<>> /\ task'[r] # task[r]

C6_Delivered ==
    \A r \in Requests :
        /\ task[r].delivered \subseteq task[r].snapshot
        /\ task[r].pending = <<>> =>
              \A ws \in task[r].snapshot : sockets[ws].alive => ws \in task[r].delivered
        /\ ~task[r].publish_raised

C6_Targets ==
    \A r \in DOMAIN task' :
        BroadcastBegan(r) => task'[r].snapshot = Subscribed(active', run'[r].tenant_id)

\* C6: a publish goes to exactly the connections subscribed to the tenant when
\* it begins (so not to one removed before), reaches every one of them whose
\* peer is there, and raises nothing to the publisher.
C6_PublishReachesSubscribers == []C6_Delivered /\ [][C6_Targets]_vars

\* a publish has reached both observers of a tenant, one of them has since been
\* removed, and a second publish has reached exactly the remaining one
C6_Witness ==
    \E r1, r2 \in Requests : \E ws1, ws2 \in DOMAIN sockets :
        /\ ws1 # ws2
        /\ task[r1].pending = <<>> /\ task[r1].delivered = {ws1, ws2}
        /\ sockets[ws2].pc = "closed"
        /\ task[r2].pending = <<>> /\ task[r2].snapshot = {ws1}
        /\ task[r2].delivered = {ws1}
        /\ run[r1].tenant_id = run[r2].tenant_id

C7_OthersServed ==
    \A r \in Requests :
        /\ (task[r].pending = <<>> /\ task[r].delivered # task[r].snapshot) =>
              \A ws \in task[r].snapshot : sockets[ws].alive => ws \in task[r].delivered
        /\ ~task[r].publish_raised
        /\ task[r].pc # "crashed"

C7_OnlyFailedRemoved ==
    \A r \in Requests :
        (SendOf(r) /\ ~sockets[Head(task[r].pending)].alive) =>
            \A t \in Tenants :
                Subscribed(active', t) = Subscribed(active, t) \ {Head(task[r].pending)}

\* C7: a send that fails during a publish removes that connection and no other
\* from the hub, the other connections of the publish are still sent to, and the
\* publish raises nothing.
C7_FailedSendIsolated == []C7_OthersServed /\ [][C7_OnlyFailedRemoved]_vars

\* a publish to two connections is over: the send to the first failed and it is
\* out of the hub, the second was sent to and is still subscribed
C7_Witness ==
    \E r \in Requests : \E ws1, ws2 \in DOMAIN sockets :
        /\ task[r].pending = <<>> /\ task[r].snapshot = {ws1, ws2}
        /\ ws1 < ws2
        /\ ~sockets[ws1].alive /\ ws1 \notin task[r].delivered
        /\ ws1 \notin Subscribed(active, run[r].tenant_id)
        /\ sockets[ws1].pc # "closed"
        /\ ws2 \in task[r].delivered
        /\ ws2 \in Subscribed(active, run[r].tenant_id)

HappyPath == <<"INIT", "LOGIN", "CHECK_SURVEYS", "IN_SURVEY", "COMPLETED", "FINISHED">>

OwnFiveSurveysAccount(r) ==
    /\ Resolves(run[r].account_id)
    /\ Accounts[run[r].account_id].tenant_id = run[r].tenant_id
    /\ Accounts[run[r].account_id].site = "FIVE_SURVEYS"

\* C8: for a run of a tenant's own FIVE_SURVEYS account in which no storage call
\* failed, the statuses the run document has taken are, in order, a prefix of
\* INIT, LOGIN, CHECK_SURVEYS, IN_SURVEY, COMPLETED, FINISHED, and all six once
\* the task is over.
C8_HappyPathStatuses ==
    \A r \in RunIds :
        (OwnFiveSurveysAccount(r) /\ ~task[r].failed) =>
            /\ IsPrefix(task[r].hist, HappyPath)
            /\ run[r].status = task[r].hist[Len(task[r].hist)]
            /\ task[r].pc = "done" => task[r].hist = HappyPath
            /\ task[r].pc # "crashed"

C8_Witness ==
    \E r \in RunIds :
        /\ OwnFiveSurveysAccount(r) /\ ~task[r].failed
        /\ task[r].pc = "done" /\ task[r].hist = HappyPath
        /\ task[r].delivered # {}

\* C9: run_now answers a tenant's request for its own account with
\* "processing" (200) before the background task has run: until the answer the
\* run document's status is INIT, it is INIT when the answer is given, and a
\* later status is seen only after the answer.
C9_InitBeforeAnswer ==
    \A r \in RunIds :
        /\ ~Answered(r) => (run[r].status = "INIT" /\ task[r].pc = "enqueue")
        /\ (Answered(r) /\ Resolves(run[r].account_id)
              /\ Accounts[run[r].account_id].tenant_id = run[r].tenant_id) =>
                 task[r].response = 200
        /\ task[r].pc = "scheduled" => (task[r].response = 200 /\ run[r].status = "INIT")
        /\ run[r].status # "INIT" => (task[r].response = 200 /\ task[r].hist[1] = "INIT")

\* the request of a tenant for its own account has just been answered, after a
\* broadcast to an observer, and the task has not run yet
C9_Witness ==
    \E r \in RunIds :
        /\ Resolves(run[r].account_id)
        /\ Accounts[run[r].account_id].tenant_id = run[r].tenant_id
        /\ task[r].pc = "scheduled" /\ task[r].response = 200
        /\ task[r].delivered # {}
        /\ run[r].status = "INIT"

EventOrder ==
    <<"RUN_ENQUEUED", "RUN_STARTED", "LOGIN_OK", "SURVEYS_FOUND", "SURVEY_COMPLETED",
      "RUN_FINISHED">>

\* C10: the events stored for a run are, in order, a prefix of RUN_ENQUEUED,
\* RUN_STARTED, LOGIN_OK, SURVEYS_FOUND, SURVEY_COMPLETED, RUN_FINISHED that
\* begins with RUN_ENQUEUED, and all six once the task is over.
C10_EventOrder ==
    \A r \in RunIds :
        /\ Len(runevent[r]) >= 1
        /\ IsPrefix(Codes(r), EventOrder)
        /\ task[r].pc = "done" => Codes(r) = EventOrder
        /\ \A i \in DOMAIN runevent[r] :
              runevent[r][i].run_id = r /\ runevent[r][i].tenant_id = run[r].tenant_id

\* one run has stored all six events while a second run, started before the
\* first was over, is half way
C10_Witness ==
    \E r1, r2 \in RunIds :
        /\ r1 # r2
        /\ task[r1].pc = "done" /\ Codes(r1) = EventOrder
        /\ InProgress(r2) /\ Len(runevent[r2]) = 3

\* C11: a run whose status is FINISHED carries payout_total 0.75, duration_sec_total
\* 80 and revenue_hour 33.75 (in hundredths: 75 and 3375), the revenue being
\* payout_total / max(duration_sec_total/3600, 1e-6) of the stored values.
C11_FinishedRevenue ==
    \A r \in RunIds :
        run[r].status = "FINISHED" =>
            /\ run[r].payout_total = 75
            /\ run[r].duration_sec_total = 80
            /\ run[r].revenue_hour = 3375
            /\ run[r].revenue_hour = RevenueHour(run[r].payout_total, run[r].duration_sec_total)

\* C12: a request naming a stored account of another tenant is answered 404 and
\* no run document exists for that tenant and account.
C12_ForeignAccountRefused ==
    \A q \in Requests :
        (/\ Answered(q)
         /\ Resolves(task[q].request.account_id)
         /\ Accounts[task[q].request.account_id].tenant_id # task[q].request.tenant_id) =>
            /\ task[q].response = 404
            /\ \A r \in RunIds :
                  ~(/\ run[r].tenant_id = task[q].request.tenant_id
                    /\ run[r].account_id = task[q].request.account_id)

\* the connections the hub holds, under any tenant
AllSubscribed(a) == UNION {Range(a[t]) : t \in DOMAIN a}

\* C13: the hub's map has no tenant key with an empty list, and a tenant has a
\* key exactly when a connection accepted under it has not been removed since.
C13_NoEmptyTenant ==
    /\ \A t \in DOMAIN active : active[t] # <<>>
    /\ \A ws \in DOMAIN sockets :
          (sockets[ws].alive /\ sockets[ws].pc # "closed") =>
              (/\ sockets[ws].tenant_id \in DOMAIN active
               /\ ws \in Range(active[sockets[ws].tenant_id]))
    /\ \A t \in DOMAIN active : \E ws \in DOMAIN sockets :
          sockets[ws].tenant_id = t /\ sockets[ws].pc # "closed"

\* a failed send of a publish has removed the last connection of a tenant, whose
\* key is gone, while the other tenant still has one
C13_Witness ==
    \E ws \in DOMAIN sockets : \E r \in Requests :
        /\ ~sockets[ws].alive /\ sockets[ws].pc # "closed"
        /\ ws \in task[r].snapshot \ task[r].delivered
        /\ ws \notin Range(task[r].pending)
        /\ sockets[ws].tenant_id \notin DOMAIN active
        /\ DOMAIN active # {}

\* websocket handles, among them one that was never registered
Handles == 1..(limits.conns + 1)

C14_Twice ==
    \A t \in Tenants : \A ws \in Handles :
        /\ disconnect(disconnect(World, t, ws), t, ws) = disconnect(World, t, ws)
        /\ ws \notin Range(ActiveGet(World, t)) => disconnect(World, t, ws) = World

C14_AlreadyRemoved ==
    /\ \A ws \in DOMAIN sockets :
          (/\ sockets[ws].pc # "closed" /\ sockets'[ws].pc = "closed"
           /\ ws \notin AllSubscribed(active)) => active' = active
    /\ \A r \in Requests :
          (/\ SendOf(r) /\ ~sockets[Head(task[r].pending)].alive
           /\ Head(task[r].pending) \notin AllSubscribed(active)) => active' = active

\* C14: disconnect of a connection that is not in the hub (removed before, never
\* registered, or of a tenant with no entry) leaves the hub as it is, and
\* disconnect applied twice gives the hub that one application gives.
C14_DisconnectIdempotent == []C14_Twice /\ [][C14_AlreadyRemoved]_vars

\* the endpoint has disconnected a websocket that a failed send of a publish had
\* disconnected too, while another connection is subscribed
C14_Witness ==
    \E ws \in DOMAIN sockets : \E r \in Requests :
        /\ sockets[ws].pc = "closed"
        /\ ws \in task[r].snapshot \ task[r].delivered
        /\ ws \notin Range(task[r].pending)
        /\ DOMAIN active # {}

\* C15: no run_event has been delivered to a connection whose "connected"
\* acknowledgment is still to be sent, so the acknowledgment is the first message
\* a connection receives.
C15_AckFirst ==
    \A ws \in DOMAIN sockets : \A r \in Requests :
        sockets[ws].pc = "accepted" => ws \notin task[r].delivered

\* C16: every FINISHED among the statuses a run document has taken comes directly
\* after COMPLETED, failed updates included.
C16_FinishedFromCompleted ==
    \A r \in RunIds : \A i \in DOMAIN task[r].hist :
        task[r].hist[i] = "FINISHED" => (i > 1 /\ task[r].hist[i - 1] = "COMPLETED")

\* the place of a status on the path of the state machine
Rank(status) ==
    CASE status = "INIT" -> 0
      [] status = "LOGIN" -> 1
      [] status = "CHECK_SURVEYS" -> 2
      [] status = "IN_SURVEY" -> 3
      [] status = "COMPLETED" -> 4
      [] status = "FINISHED" -> 5
      [] status = "ERROR" -> 6

Terminal == {"FINISHED", "ERROR"}

C17_Hist ==
    \A r \in RunIds :
        LET h == task[r].hist
        IN  /\ h[1] = "INIT"
            /\ run[r].status = h[Len(h)]
            /\ \A i \in 1..(Len(h) - 1) :
                  Rank(h[i]) < Rank(h[i + 1]) /\ h[i] \notin Terminal

C17_Step ==
    \A r \in RunIds :
        /\ Rank(run'[r].status) >= Rank(run[r].status)
        /\ run[r].status \in Terminal => run'[r].status = run[r].status

\* C17: the statuses a run document takes, failed updates included, go forward
\* on the path INIT, LOGIN, CHECK_SURVEYS, IN_SURVEY, COMPLETED, FINISHED with
\* ERROR after any of them but FINISHED: none comes back, INIT least of all, and
\* FINISHED or ERROR is never followed by another status.
C17_StatusMonotonic == []C17_Hist /\ [][C17_Step]_vars

\* a run that lost an update, went on further down the path and ended in ERROR
C17_Witness ==
    \E r \in RunIds :
        /\ task[r].pc = "done" /\ run[r].status = "ERROR"
        /\ task[r].failed
        /\ Len(task[r].hist) >= 3
        /\ \E i \in 1..(Len(task[r].hist) - 1) :
              Rank(task[r].hist[i + 1]) > Rank(task[r].hist[i]) + 1 /\ task[r].hist[i + 1] # "ERROR"

\* the number of events stored and of statuses taken at a position of the code
EventsAt(pc, step) == IF pc \in {"enqueue", "refused", "scheduled"} THEN 1 ELSE step + 1
StatusesAt(pc, step) ==
    IF pc \in {"enqueue", "refused", "scheduled"} THEN 1
    ELSE IF pc = "emit" THEN step ELSE step + 1

C18_SameAtPosition ==
    \A r \in RunIds :
        /\ task[r].pc \in {"enqueue", "refused", "scheduled", "emit", "sleep", "done"}
        /\ Codes(r) = SubSeq(EventOrder, 1, EventsAt(task[r].pc, task[r].step))
        /\ task[r].hist = SubSeq(HappyPath, 1, StatusesAt(task[r].pc, task[r].step))
        /\ \A i \in DOMAIN runevent[r] : runevent[r][i].level = "info"
        /\ run[r].error = NoError
        /\ task[r].pc # "enqueue" =>
              (task[r].pc = "refused" <=> ~Resolves(task[r].request.account_id))
        /\ task[r].pc = "done" => task[r].step = Len(Steps)

C18_ObserverSteps ==
    /\ task' = task => (run' = run /\ runevent' = runevent)
    /\ \A r \in RunIds : (SendOf(r) /\ task'[r].pc = task[r].pc /\ task'[r].step = task[r].step) =>
          (run' = run /\ runevent' = runevent /\ task'[r].hist = task[r].hist)

\* C18: with no storage failure, the events stored for a run and the statuses
\* its document has taken are determined by how far its code has got, whatever
\* the observers did: two runs at the same position have the same sequences,
\* and a step of an observer or a failed send changes neither.
C18_ObserversDoNotAffectRun == []C18_SameAtPosition /\ [][C18_ObserverSteps]_vars

\* two finished runs with the same events and statuses: the last publish of one
\* lost an observer on a failed send, the other had no observer at all
C18_Witness ==
    \E r1, r2 \in RunIds :
        /\ r1 # r2
        /\ task[r1].pc = "done" /\ task[r2].pc = "done"
        /\ Codes(r1) = EventOrder /\ Codes(r2) = Codes(r1)
        /\ task[r1].hist = HappyPath /\ task[r2].hist = task[r1].hist
        /\ task[r1].snapshot \ task[r1].delivered # {}
        /\ task[r2].snapshot = {}

C19_Consistent ==
    /\ \A t \in DOMAIN active : \A i, j \in DOMAIN active[t] :
          i # j => active[t][i] # active[t][j]
    /\ \A t \in DOMAIN active : \A ws \in Range(active[t]) :
          ws \in DOMAIN sockets /\ sockets[ws].tenant_id = t
    /\ \A ws \in DOMAIN sockets : sockets[ws].pc = "closed" => ws \notin AllSubscribed(active)
    /\ \A r \in Requests : \A ws \in task[r].snapshot \ task[r].delivered :
          ws \notin Range(task[r].pending) => ws \notin AllSubscribed(active)

C19_NeverBack ==
    \A ws \in DOMAIN sockets :
        ws \notin AllSubscribed(active) => ws \notin AllSubscribed(active')

\* C19: whatever the interleaving of connects, disconnects and the sends of
\* broadcasts, a connection is in the hub at most once and only under its own
\* tenant, and one that was removed, by the endpoint or by a failed send, is not
\* in the hub again.
C19_HubConsistent == []C19_Consistent /\ [][C19_NeverBack]_vars

\* a broadcast is suspended at the send to a connection that the endpoint has
\* removed since, and another connection subscribed to the tenant meanwhile
C19_Witness ==
    \E r \in Requests : \E ws1, ws2 \in DOMAIN sockets :
        /\ task[r].pending # <<>> /\ Head(task[r].pending) = ws1
        /\ sockets[ws1].pc = "closed"
        /\ ws2 \notin task[r].snapshot
        /\ sockets[ws2].tenant_id = sockets[ws1].tenant_id
        /\ ws2 \in AllSubscribed(active)

\* C20: every run document reaches FINISHED or ERROR; in particular, once
\* nothing is left to run for it (its request is refused or its task is over)
\* its status is FINISHED or ERROR, not INIT or an intermediate one.
C20_EveryRunEnds ==
    \A r \in RunIds :
        task[r].pc \in {"refused", "done", "crashed"} => run[r].status \in Terminal

====
